---- MODULE Spec2Model ----
(***************************************************************************)
(* Model of the DesignLibre native backend (src-tauri/src/commands.rs):    *)
(* the three commands read_design_file, write_design_file and              *)
(* get_system_fonts, acting on a small filesystem.                         *)
(*                                                                         *)
(* A Rust String is a sequence of code points; what is on disk is a        *)
(* sequence of bytes.  as_bytes (Utf8Encode) and from_utf8 (Utf8Valid,     *)
(* Utf8Decode) are computed, for code points below 2048.  A file name is   *)
(* the byte sequence of its OsString.                                      *)
(***************************************************************************)
EXTENDS Integers, Sequences, FiniteSets, TLC

VARIABLES files, dirs, platform, home, fontDirs, last, wr

vars == <<files, dirs, platform, home, fontDirs, last, wr>>

(***************************************************************************)
(* Bounds of the model.                                                    *)
(***************************************************************************)
\* longest content (in code points) a sequential write_design_file is given
MaxLen == 1
\* most directory entries present in the font directories, all together
MaxEntries == 4
\* longest content (in code points) of a concurrent write_design_file
MaxConcLen == 2

(***************************************************************************)
(* Strings and bytes.                                                      *)
(***************************************************************************)
\* the code points contents are made of: "A" (1 byte) and U+00E9 (2 bytes)
Chars == {65, 233}

\* the strings over a set of code points, up to a length
StringsUpTo(cs, n) == UNION {[1..k -> cs] : k \in 0..n}

\* String::as_bytes of one code point (1- and 2-byte forms)
EncodeChar(c) ==
    IF c < 128 THEN <<c>> ELSE <<192 + (c \div 64), 128 + (c % 64)>>

RECURSIVE Utf8Encode(_)
Utf8Encode(s) ==
    IF s = <<>> THEN <<>> ELSE EncodeChar(Head(s)) \o Utf8Encode(Tail(s))

IsCont(b) == b >= 128 /\ b <= 191

\* std::str::from_utf8 succeeds (the 3- and 4-byte forms are not modelled:
\* a lead byte of 224 or more is refused)
RECURSIVE Utf8Valid(_)
Utf8Valid(bs) ==
    IF bs = <<>> THEN TRUE
    ELSE IF Head(bs) < 128 THEN Utf8Valid(Tail(bs))
    ELSE IF Head(bs) >= 194 /\ Head(bs) <= 223
         THEN /\ Len(bs) >= 2
              /\ IsCont(bs[2])
              /\ Utf8Valid(Tail(Tail(bs)))
    ELSE FALSE

\* the String that valid bytes decode to
RECURSIVE Utf8Decode(_)
Utf8Decode(bs) ==
    IF bs = <<>> THEN <<>>
    ELSE IF Head(bs) < 128 THEN <<Head(bs)>> \o Utf8Decode(Tail(bs))
    ELSE <<(Head(bs) - 192) * 64 + (bs[2] - 128)>> \o Utf8Decode(Tail(Tail(bs)))

(***************************************************************************)
(* The filesystem the file commands act on.                                *)
(***************************************************************************)
\* the path arguments; "/w/./a" names the same file as "/w/a"
Paths == {"/w/a", "/w/./a", "/m/c"}

\* the file a path names
Resolve(p) == IF p = "/w/./a" THEN "/w/a" ELSE p

Nodes == {Resolve(p) : p \in Paths}

\* the directory a file is in
Parent(n) == IF n = "/m/c" THEN "/m" ELSE "/w"

\* no file; a file has bytes and grants (perm) or denies access
NoFile == [exists |-> FALSE, perm |-> TRUE, bytes |-> <<>>]

MkFile(bs) == [exists |-> TRUE, perm |-> TRUE, bytes |-> bs]

\* the causes std::io::Error displays
ENOENT == "No such file or directory (os error 2)"

EACCES == "Permission denied (os error 13)"

EINVAL == "stream did not contain valid UTF-8"

NoErr == ""

\* std::fs::read_to_string: [ok, content, cause]
FsReadToString(fs, ds, p) ==
    LET n == Resolve(p) IN
    IF Parent(n) \notin ds \/ ~fs[n].exists
    THEN [ok |-> FALSE, content |-> <<>>, cause |-> ENOENT]
    ELSE IF ~fs[n].perm
    THEN [ok |-> FALSE, content |-> <<>>, cause |-> EACCES]
    ELSE IF ~Utf8Valid(fs[n].bytes)
    THEN [ok |-> FALSE, content |-> <<>>, cause |-> EINVAL]
    ELSE [ok |-> TRUE, content |-> Utf8Decode(fs[n].bytes), cause |-> NoErr]

\* an open that makes the missing directories first
OpenCauseAnyDir(fs, ds, n) ==
    IF fs[n].exists /\ ~fs[n].perm THEN EACCES ELSE NoErr

\* open(O_WRONLY | O_CREAT | O_TRUNC) fails with this cause (NoErr: succeeds)
OpenCause(fs, ds, n) ==
    IF Parent(n) \notin ds THEN ENOENT
    ELSE IF fs[n].exists /\ ~fs[n].perm THEN EACCES
    ELSE NoErr

\* open without O_TRUNC: the bytes of an existing file stay
CreateKeep(f) == IF f.exists THEN f ELSE MkFile(<<>>)

\* the file after a successful open(O_WRONLY | O_CREAT | O_TRUNC)
CreateTrunc(f) == IF f.exists THEN [f EXCEPT !.bytes = <<>>] ELSE MkFile(<<>>)

\* zero bytes: the hole a write past the end of the file leaves
Zeros(k) == [i \in 1..k |-> 0]

\* a descriptor opened with O_APPEND: every write goes to the end
WriteAppend(bs, off, data) == bs \o data

\* the bytes of a file after write(fd, data) at offset off
WriteAt(bs, off, data) ==
    LET pre  == IF Len(bs) >= off THEN SubSeq(bs, 1, off)
                ELSE bs \o Zeros(off - Len(bs))
        post == IF Len(bs) > off + Len(data)
                THEN SubSeq(bs, off + Len(data) + 1, Len(bs)) ELSE <<>>
    IN pre \o data \o post

\* std::fs::write: [cause, fs]: the file is created or truncated, then all
\* the bytes are written from offset 0
FsWrite(fs, ds, p, data) ==
    LET n == Resolve(p)
        c == OpenCause(fs, ds, n)
    IN IF c # NoErr THEN [cause |-> c, fs |-> fs]
       ELSE [cause |-> NoErr,
             fs |-> [fs EXCEPT ![n] =
                        [CreateTrunc(fs[n]) EXCEPT
                            !.bytes = WriteAt(CreateTrunc(fs[n]).bytes, 0, data)]]]

(***************************************************************************)
(* What a command returned: the command, its arguments, Ok or Err, and the *)
(* value.                                                                  *)
(***************************************************************************)
NoDesignFile == [path |-> "", content |-> <<>>]

Outcome(op, p, c, ok, f, fl, e) ==
    [op |-> op, path |-> p, content |-> c, ok |-> ok, file |-> f,
     fonts |-> fl, err |-> e]

Idle(op) == Outcome(op, "", <<>>, TRUE, NoDesignFile, <<>>, NoErr)

(***************************************************************************)
(* read_design_file and write_design_file.                                 *)
(***************************************************************************)
\* the DesignFile read_design_file builds: the path argument as given
DesignFile(p, c) == [path |-> p, content |-> c]

\* a read that turns a failure into the empty content
ReadOutcomeDefault(fs, ds, p) ==
    Outcome("read", p, <<>>, TRUE,
            DesignFile(p, FsReadToString(fs, ds, p).content), <<>>, NoErr)

\* what read_design_file(p) returns
ReadOutcome(fs, ds, p) ==
    LET r == FsReadToString(fs, ds, p) IN
    IF r.ok
    THEN Outcome("read", p, <<>>, TRUE, DesignFile(p, r.content), <<>>, NoErr)
    ELSE Outcome("read", p, <<>>, FALSE, NoDesignFile, <<>>,
                 "Failed to read file: " \o r.cause)

\* what write_design_file(p, c) returns, given the cause fs::write failed with
WriteOutcome(p, c, cause) ==
    IF cause = NoErr
    THEN Outcome("write", p, c, TRUE, NoDesignFile, <<>>, NoErr)
    ELSE Outcome("write", p, c, FALSE, NoDesignFile, <<>>,
                 "Failed to write file: " \o cause)

\* a read through a descriptor opened with create(true)
ReadDesignFileCreate(p) ==
    /\ last' = ReadOutcome(files, dirs, p)
    /\ files' = IF Parent(Resolve(p)) \in dirs /\ ~files[Resolve(p)].exists
                THEN [files EXCEPT ![Resolve(p)] = MkFile(<<>>)] ELSE files
    /\ UNCHANGED <<dirs, platform, home, fontDirs, wr>>

ReadDesignFile(p) ==
    /\ last' = ReadOutcome(files, dirs, p)
    /\ UNCHANGED <<files, dirs, platform, home, fontDirs, wr>>

WriteDesignFile(p, c) ==
    LET w == FsWrite(files, dirs, p, Utf8Encode(c)) IN
    /\ files' = w.fs
    /\ last' = WriteOutcome(p, c, w.cause)
    /\ UNCHANGED <<dirs, platform, home, fontDirs, wr>>

(***************************************************************************)
(* The font directories.                                                   *)
(***************************************************************************)
Platforms == {"macos", "linux", "windows", "other"}

\* HOME: unset, or set to a value (the empty string is a value)
NoHome == [set |-> FALSE, value |-> ""]

Homes == {NoHome, [set |-> TRUE, value |-> "/Users/u"], [set |-> TRUE, value |-> ""]}

\* the directories get_system_fonts reads, in the order it reads them
FontDirsOf(pf, h) ==
    CASE pf = "macos" ->
            <<"/System/Library/Fonts", "/Library/Fonts">>
            \o (IF h.set THEN <<h.value \o "/Library/Fonts">> ELSE <<>>)
      [] pf = "linux" -> <<"/usr/share/fonts", "/usr/local/share/fonts">>
      [] pf = "windows" -> <<"C:\\Windows\\Fonts">>
      [] OTHER -> <<>>

\* every block tests the suffix
FilteredAll(pf) == TRUE

\* whether the platform's block tests the suffix of a name
Filtered(pf) == pf # "linux"

\* the font directories of the model's filesystem, per platform
PlatformDirs(pf) ==
    CASE pf = "macos" ->
            {"/System/Library/Fonts", "/Library/Fonts", "/Users/u/Library/Fonts"}
      [] pf = "linux" -> {"/usr/share/fonts", "/usr/local/share/fonts"}
      [] pf = "windows" -> {"C:\\Windows\\Fonts"}
      [] OTHER -> {}

FontDirNames == UNION {PlatformDirs(pf) : pf \in Platforms}

\* file names, as bytes: a.otf, a.ttc, b.ttf, c.txt, and \xFF.ttf (not text)
NameAOtf == <<97, 46, 111, 116, 102>>

NameATtc == <<97, 46, 116, 116, 99>>

NameBTtf == <<98, 46, 116, 116, 102>>

NameCTxt == <<99, 46, 116, 120, 116>>

NameBad == <<255, 46, 116, 116, 102>>

Names == {NameAOtf, NameATtc, NameBTtf, NameCTxt, NameBad}

SufTtf == <<46, 116, 116, 102>>

SufOtf == <<46, 111, 116, 102>>

SufTtc == <<46, 116, 116, 99>>

\* str::ends_with
EndsWith(s, suf) ==
    /\ Len(s) >= Len(suf)
    /\ SubSeq(s, Len(s) - Len(suf) + 1, Len(s)) = suf

\* a suffix test that leaves .otf out
IsFontNameNoOtf(nm) == EndsWith(nm, SufTtf) \/ EndsWith(nm, SufTtc)

\* the suffix test of the macOS and Windows blocks
IsFontName(nm) ==
    EndsWith(nm, SufTtf) \/ EndsWith(nm, SufOtf) \/ EndsWith(nm, SufTtc)

\* the order of String: byte by byte, a proper prefix first
RECURSIVE StrLess(_, _)
StrLess(a, b) ==
    IF b = <<>> THEN FALSE
    ELSE IF a = <<>> THEN TRUE
    ELSE IF Head(a) # Head(b) THEN Head(a) < Head(b)
    ELSE StrLess(Tail(a), Tail(b))

RECURSIVE Insert(_, _)
Insert(x, s) ==
    IF s = <<>> THEN <<x>>
    ELSE IF StrLess(x, Head(s)) THEN <<x>> \o s
    ELSE <<Head(s)>> \o Insert(x, Tail(s))

\* the sort left out
SortNone(s) == s

\* Vec::sort
RECURSIVE SortVec(_)
SortVec(s) == IF s = <<>> THEN <<>> ELSE Insert(Head(s), SortVec(Tail(s)))

\* Vec::dedup: of consecutive equal elements the first is kept
RECURSIVE Dedup(_)
Dedup(s) ==
    IF Len(s) <= 1 THEN s
    ELSE IF s[1] = s[2] THEN Dedup(Tail(s))
    ELSE <<s[1]>> \o Dedup(Tail(s))

\* one entry of a directory: pushed when its name is text and, on a
\* filtering platform, has a font suffix
PushEntry(fonts, nm, filtered) ==
    IF Utf8Valid(nm) /\ (filtered => IsFontName(nm))
    THEN Append(fonts, nm) ELSE fonts

\* the loop over the entries read_dir yields
RECURSIVE ScanEntries(_, _, _)
ScanEntries(fonts, listing, filtered) ==
    IF listing = <<>> THEN fonts
    ELSE ScanEntries(PushEntry(fonts, Head(listing), filtered),
                     Tail(listing), filtered)

\* if let Ok(entries) = fs::read_dir(dir) { ... }
ScanDir(fonts, fd, d, listing, filtered) ==
    IF d \in DOMAIN fd /\ fd[d].readable
    THEN ScanEntries(fonts, listing, filtered) ELSE fonts

\* a loop that ends at the first directory read_dir fails on
RECURSIVE ScanDirsStop(_, _, _, _, _)
ScanDirsStop(fonts, fd, ds, ls, filtered) ==
    IF ds = <<>> THEN fonts
    ELSE IF ~(Head(ds) \in DOMAIN fd /\ fd[Head(ds)].readable) THEN fonts
    ELSE ScanDirsStop(ScanDir(fonts, fd, Head(ds), Head(ls), filtered),
                      fd, Tail(ds), Tail(ls), filtered)

\* the loop over the directories; ls[i] is what read_dir yields for ds[i]
RECURSIVE ScanDirs(_, _, _, _, _)
ScanDirs(fonts, fd, ds, ls, filtered) ==
    IF ds = <<>> THEN fonts
    ELSE ScanDirs(ScanDir(fonts, fd, Head(ds), Head(ls), filtered),
                  fd, Tail(ds), Tail(ls), filtered)

\* the dedup left out
FinishNoDedup(fonts) == SortVec(fonts)

\* fonts.sort(); fonts.dedup(); Ok(fonts)
Finish(fonts) == Dedup(SortVec(fonts))

\* the orders read_dir may yield the entries of a directory in
Listings(S) ==
    {l \in [1..Cardinality(S) -> S] : \A i, j \in 1..Cardinality(S) :
                                          i # j => l[i] # l[j]}

EntriesOf(fd, d) == IF d \in DOMAIN fd THEN fd[d].entries ELSE {}

RECURSIVE Orders(_, _)
Orders(fd, ds) ==
    IF ds = <<>> THEN {<<>>}
    ELSE {<<l>> \o rest : l \in Listings(EntriesOf(fd, Head(ds))),
                          rest \in Orders(fd, Tail(ds))}

\* what get_system_fonts returns when read_dir yields the orders ls
FontsOutcome(pf, h, fd, ls) ==
    Outcome("fonts", "", <<>>, TRUE, NoDesignFile,
            Finish(ScanDirs(<<>>, fd, FontDirsOf(pf, h), ls, Filtered(pf))),
            NoErr)

GetSystemFonts ==
    /\ \E ls \in Orders(fontDirs, FontDirsOf(platform, home)) :
           last' = FontsOutcome(platform, home, fontDirs, ls)
    /\ UNCHANGED <<files, dirs, platform, home, fontDirs, wr>>

(***************************************************************************)
(* Concurrent write_design_file calls on one path.  fs::write is           *)
(* File::create (open, truncating), write_all (write calls, each taking    *)
(* some of the bytes left, at the descriptor's own offset), and the close  *)
(* as the File is dropped.                                                 *)
(***************************************************************************)
Writers == {1, 2}

ConcPath == "/w/a"

\* the code points of concurrent contents: "A" and "B"
ConcChars == {65, 66}

\* a call that has not started
Call(c) == [pc |-> "call", content |-> c, off |-> 0, calls |-> 0]

NoCall == [pc |-> "none", content |-> <<>>, off |-> 0, calls |-> 0]

\* File::create(path)
WOpen(w) ==
    /\ wr[w].pc = "call"
    /\ OpenCause(files, dirs, Resolve(ConcPath)) = NoErr
    /\ files' = [files EXCEPT ![Resolve(ConcPath)] = CreateTrunc(@)]
    /\ wr' = [wr EXCEPT ![w].pc = "write"]
    /\ UNCHANGED <<dirs, platform, home, fontDirs, last>>

\* one write call of write_all: the k next bytes
WWrite(w, k) ==
    LET data == Utf8Encode(wr[w].content) IN
    /\ wr[w].pc = "write"
    /\ k \in 1..(Len(data) - wr[w].off)
    /\ files' = [files EXCEPT ![Resolve(ConcPath)].bytes =
                     WriteAt(@, wr[w].off, SubSeq(data, wr[w].off + 1, wr[w].off + k))]
    /\ wr' = [wr EXCEPT ![w].off = @ + k, ![w].calls = @ + 1]
    /\ UNCHANGED <<dirs, platform, home, fontDirs, last>>

\* all bytes written: the File is dropped and Ok(()) returned
WReturn(w) ==
    /\ wr[w].pc = "write"
    /\ wr[w].off = Len(Utf8Encode(wr[w].content))
    /\ wr' = [wr EXCEPT ![w].pc = "done"]
    /\ UNCHANGED <<files, dirs, platform, home, fontDirs, last>>

(***************************************************************************)
(* The rest of the system: other programs change the filesystem between    *)
(* commands.                                                               *)
(***************************************************************************)
\* bytes another program leaves in a file: not text, and a cut 2-byte form
ForeignBytes == {<<255>>, <<195>>}

EnvRemoveFile(n) ==
    /\ files[n].exists
    /\ files' = [files EXCEPT ![n] = NoFile]
    /\ last' = Idle("env")
    /\ UNCHANGED <<dirs, platform, home, fontDirs, wr>>

EnvPutBytes(n, bs) ==
    /\ Parent(n) \in dirs
    /\ files' = [files EXCEPT ![n] = MkFile(bs)]
    /\ last' = Idle("env")
    /\ UNCHANGED <<dirs, platform, home, fontDirs, wr>>

EnvChmod(n) ==
    /\ files[n].exists
    /\ files' = [files EXCEPT ![n].perm = ~@]
    /\ last' = Idle("env")
    /\ UNCHANGED <<dirs, platform, home, fontDirs, wr>>

EnvMkdir ==
    /\ "/m" \notin dirs
    /\ dirs' = dirs \cup {"/m"}
    /\ last' = Idle("env")
    /\ UNCHANGED <<files, platform, home, fontDirs, wr>>

EnvRmdir ==
    /\ "/m" \in dirs
    /\ \A n \in Nodes : Parent(n) = "/m" => ~files[n].exists
    /\ dirs' = dirs \ {"/m"}
    /\ last' = Idle("env")
    /\ UNCHANGED <<files, platform, home, fontDirs, wr>>

\* the number of entries in the font directories
RECURSIVE SumCard(_, _)
SumCard(fd, D) ==
    IF D = {} THEN 0
    ELSE LET d == CHOOSE x \in D : TRUE
         IN Cardinality(fd[d].entries) + SumCard(fd, D \ {d})

\* (a macOS volume holds no name that is not text)
EnvAddEntry(d, nm) ==
    /\ nm \notin fontDirs[d].entries
    /\ platform = "macos" => Utf8Valid(nm)
    /\ SumCard(fontDirs, FontDirNames) < MaxEntries
    /\ fontDirs' = [fontDirs EXCEPT ![d].entries = @ \cup {nm}]
    /\ last' = Idle("env")
    /\ UNCHANGED <<files, dirs, platform, home, wr>>

EnvRemoveEntry(d, nm) ==
    /\ nm \in fontDirs[d].entries
    /\ fontDirs' = [fontDirs EXCEPT ![d].entries = @ \ {nm}]
    /\ last' = Idle("env")
    /\ UNCHANGED <<files, dirs, platform, home, wr>>

\* the directory becomes unreadable (removed from view, or access denied),
\* or readable again
EnvChmodDir(d) ==
    /\ fontDirs' = [fontDirs EXCEPT ![d].readable = ~@]
    /\ last' = Idle("env")
    /\ UNCHANGED <<files, dirs, platform, home, wr>>

(***************************************************************************)
(* Specifications.                                                         *)
(***************************************************************************)
EmptyDir == [readable |-> TRUE, entries |-> {}]

\* font directories as in the example of the specification's section 8: the
\* first directories hold b.ttf, a.otf and c.txt, the others a.otf again
ExampleFontDirs ==
    [d \in FontDirNames |->
        IF d \in {"/System/Library/Fonts", "/usr/share/fonts", "C:\\Windows\\Fonts"}
        THEN [readable |-> TRUE, entries |-> {NameBTtf, NameAOtf, NameCTxt}]
        ELSE [readable |-> TRUE, entries |-> {NameAOtf}]]

\* the file commands, run one after the other
InitFile ==
    /\ files = [n \in Nodes |-> NoFile]
    /\ dirs = {"/w"}
    /\ platform \in Platforms
    /\ home = NoHome
    /\ fontDirs = ExampleFontDirs
    /\ last = Idle("init")
    /\ wr = [w \in Writers |-> NoCall]

NextFile ==
    \/ \E p \in Paths : ReadDesignFile(p)
    \/ \E p \in Paths, c \in StringsUpTo(Chars, MaxLen) : WriteDesignFile(p, c)
    \/ GetSystemFonts
    \/ \E n \in Nodes : EnvRemoveFile(n)
    \/ \E n \in Nodes, bs \in ForeignBytes : EnvPutBytes(n, bs)
    \/ \E n \in Nodes : EnvChmod(n)
    \/ EnvMkdir
    \/ EnvRmdir

SpecFile == InitFile /\ [][NextFile]_vars

\* get_system_fonts, called again and again while the font directories change
InitFonts ==
    /\ files = [n \in Nodes |-> NoFile]
    /\ dirs = {"/w"}
    /\ platform \in Platforms
    /\ home \in Homes
    /\ fontDirs = [d \in FontDirNames |-> EmptyDir]
    /\ last = Idle("init")
    /\ wr = [w \in Writers |-> NoCall]

NextFonts ==
    \/ GetSystemFonts
    \/ \E d \in PlatformDirs(platform), nm \in Names : EnvAddEntry(d, nm)
    \/ \E d \in PlatformDirs(platform), nm \in Names : EnvRemoveEntry(d, nm)
    \/ \E d \in PlatformDirs(platform) : EnvChmodDir(d)

SpecFonts == InitFonts /\ [][NextFonts]_vars

\* two write_design_file calls on one path, their steps interleaved
InitConc ==
    /\ files \in {[n \in Nodes |-> IF n = Resolve(ConcPath) THEN f ELSE NoFile] :
                     f \in {NoFile, MkFile(<<66, 65, 66, 65>>)}}
    /\ dirs = {"/w"}
    /\ platform = "linux"
    /\ home = NoHome
    /\ fontDirs = [d \in FontDirNames |-> EmptyDir]
    /\ last = Idle("init")
    /\ wr \in [Writers -> {Call(c) : c \in StringsUpTo(ConcChars, MaxConcLen)}]

NextConc ==
    \/ \E w \in Writers : WOpen(w)
    \/ \E w \in Writers, k \in 1..(2 * MaxConcLen) : WWrite(w, k)
    \/ \E w \in Writers : WReturn(w)

SpecConc == InitConc /\ [][NextConc]_vars

(***************************************************************************)
(* Properties.                                                             *)
(***************************************************************************)
ToSet(s) == {s[i] : i \in 1..Len(s)}

StrictlyAscending(s) == \A i \in 1..(Len(s) - 1) : StrLess(s[i], s[i + 1])

StartsWith(s, pre) == Len(s) >= Len(pre) /\ SubSeq(s, 1, Len(pre)) = pre

\* the message is the prefix followed by the cause
IsMessage(s, pre, cause) ==
    /\ StartsWith(s, pre)
    /\ SubSeq(s, Len(pre) + 1, Len(s)) = cause

\* the directories of the platform's list that read_dir can read
ReadableScanned ==
    {d \in ToSet(FontDirsOf(platform, home)) \cap DOMAIN fontDirs :
        fontDirs[d].readable}

\* the names of the entries of the readable scanned directories
ReadableEntries == UNION {fontDirs[d].entries : d \in ReadableScanned}

HasFontSuffix(nm) == \E suf \in {SufTtf, SufOtf, SufTtc} : EndsWith(nm, suf)

\* why a read of path p fails in the current filesystem ("": it does not)
ReadFailure(p) ==
    LET n == Resolve(p) IN
    IF Parent(n) \notin dirs \/ ~files[n].exists THEN ENOENT
    ELSE IF ~files[n].perm THEN EACCES
    ELSE IF \A c \in StringsUpTo(Chars, Len(files[n].bytes)) :
                Utf8Encode(c) # files[n].bytes
    THEN EINVAL
    ELSE NoErr

C3_ReadError ==
    [][(last'.op = "read" /\ ReadFailure(last'.path) # NoErr)
       => (/\ ~last'.ok
           /\ last'.file = NoDesignFile
           /\ IsMessage(last'.err, "Failed to read file: ", ReadFailure(last'.path))
           /\ files' = files /\ dirs' = dirs /\ fontDirs' = fontDirs)]_vars

\* C3: a read of a path with no file has failed
C3_Witness ==
    /\ last.op = "read" /\ ~last.ok
    /\ "/w" \in dirs /\ ~files[Resolve(last.path)].exists
    /\ last.err = "Failed to read file: No such file or directory (os error 2)"

\* C4: a write to a path whose parent directory does not exist returns the
\* string "Failed to write file: " followed by the cause, and creates neither
\* the directory nor the file, and changes no file.
C4_WriteNoParent ==
    [][(last'.op = "write" /\ Parent(Resolve(last'.path)) \notin dirs)
       => (/\ ~last'.ok
           /\ IsMessage(last'.err, "Failed to write file: ", ENOENT)
           /\ dirs' = dirs
           /\ files' = files)]_vars

\* C4: a write into the missing directory has failed, another file existing
C4_Witness ==
    /\ last.op = "write" /\ ~last.ok
    /\ last.path = "/m/c" /\ "/m" \notin dirs
    /\ files["/w/a"].exists
    /\ last.err = "Failed to write file: No such file or directory (os error 2)"

\* C5: on every platform get_system_fonts returns Ok, and the sequence is
\* strictly ascending, so no name is in it twice.
C5_OkAscending ==
    last.op = "fonts" => last.ok /\ StrictlyAscending(last.fonts)

\* C5: a name that is in two scanned readable directories is in the result,
\* which holds another name too
C5_Witness ==
    /\ last.op = "fonts"
    /\ Len(last.fonts) >= 2
    /\ \E d1, d2 \in ReadableScanned :
           /\ d1 # d2
           /\ \E nm \in fontDirs[d1].entries \cap fontDirs[d2].entries :
                  nm \in ToSet(last.fonts)

\* C6, as stated: on macOS and Windows the result is the ascending sequence
\* of exactly the names, of the entries of the readable scanned directories,
\* that end in .ttf, .otf or .ttc.
C6_Original ==
    (last.op = "fonts" /\ platform \in {"macos", "windows"})
    => /\ StrictlyAscending(last.fonts)
       /\ ToSet(last.fonts) = {nm \in ReadableEntries : HasFontSuffix(nm)}

\* C6, amended: on macOS and Windows the result is the ascending sequence of
\* exactly the names, of the entries of the readable scanned directories, that
\* are text and end in .ttf, .otf or .ttc.
C6_FilteredText ==
    (last.op = "fonts" /\ platform \in {"macos", "windows"})
    => /\ StrictlyAscending(last.fonts)
       /\ ToSet(last.fonts) =
              {nm \in ReadableEntries : Utf8Valid(nm) /\ HasFontSuffix(nm)}

\* C6: b.ttf, a.otf, c.txt in one directory and a.otf again in another give
\* a.otf, b.ttf
C6_Witness ==
    /\ last.op = "fonts" /\ platform = "macos"
    /\ fontDirs["/System/Library/Fonts"] =
           [readable |-> TRUE, entries |-> {NameBTtf, NameAOtf, NameCTxt}]
    /\ fontDirs["/Library/Fonts"] = [readable |-> TRUE, entries |-> {NameAOtf}]
    /\ last.fonts = <<NameAOtf, NameBTtf>>

\* C7: a directory that cannot be read adds nothing and ends nothing: the
\* result is Ok, holds every name the readable directories of the list
\* contribute, before or after the failing one, and holds no other name; it
\* is empty when no directory can be read.
C7_SkipUnreadable ==
    last.op = "fonts"
    => /\ last.ok
       /\ \A d \in ReadableScanned : \A nm \in fontDirs[d].entries :
              (Utf8Valid(nm) /\ (platform # "linux" => HasFontSuffix(nm)))
              => nm \in ToSet(last.fonts)
       /\ ToSet(last.fonts) \subseteq ReadableEntries
       /\ ReadableScanned = {} => last.fonts = <<>>

\* C7: the first and the last directory of the list hold a font each, the one
\* between them cannot be read, and both fonts are in the result
C7_Witness ==
    /\ last.op = "fonts" /\ platform = "macos" /\ home.value = "/Users/u"
    /\ ~fontDirs["/Library/Fonts"].readable
    /\ fontDirs["/Library/Fonts"].entries # {}
    /\ fontDirs["/System/Library/Fonts"].entries = {NameAOtf}
    /\ fontDirs["/Users/u/Library/Fonts"].entries = {NameBTtf}
    /\ last.fonts = <<NameAOtf, NameBTtf>>

\* C8: the result of a call is the ascending sequence of the names the
\* directories contribute as they are at the call, on every platform; a call
\* that follows a call returns the same sequence, in whatever order the
\* entries are read; the call changes no directory.
C8_Stateless ==
    [][last'.op = "fonts"
       => (/\ fontDirs' = fontDirs /\ home' = home /\ platform' = platform
           /\ StrictlyAscending(last'.fonts)
           /\ ToSet(last'.fonts) =
                  {nm \in ReadableEntries :
                      Utf8Valid(nm) /\ (platform # "linux" => HasFontSuffix(nm))}
           /\ last.op = "fonts" => last'.fonts = last.fonts)]_vars

\* C8: a call on Linux returned three names
C8_Witness ==
    /\ last.op = "fonts" /\ platform = "linux"
    /\ last.fonts = <<NameAOtf, NameBTtf, NameCTxt>>

\* C9, as stated: on Linux the result is the ascending sequence of the names
\* of all entries of the readable ones of the two directories, whatever
\* their suffix.
C9_Original ==
    (last.op = "fonts" /\ platform = "linux")
    => /\ StrictlyAscending(last.fonts)
       /\ ToSet(last.fonts) = ReadableEntries

\* C9, amended: on Linux the result is the ascending sequence of the names
\* that are text, of all entries of the readable ones of the two directories,
\* whatever their suffix.
C9_UnfilteredText ==
    (last.op = "fonts" /\ platform = "linux")
    => /\ ToSet(FontDirsOf(platform, home)) =
              {"/usr/share/fonts", "/usr/local/share/fonts"}
       /\ StrictlyAscending(last.fonts)
       /\ ToSet(last.fonts) = {nm \in ReadableEntries : Utf8Valid(nm)}

\* C9: c.txt, of the second directory, is in the result on Linux
C9_Witness ==
    /\ last.op = "fonts" /\ platform = "linux"
    /\ NameCTxt \in fontDirs["/usr/local/share/fonts"].entries
    /\ NameCTxt \notin fontDirs["/usr/share/fonts"].entries
    /\ NameCTxt \in ToSet(last.fonts)

\* C10: read_design_file and get_system_fonts change nothing of the
\* filesystem, whether they succeed or fail; a successful write_design_file
\* leaves the file of its path existing and holding the bytes of the content
\* and nothing more, and changes no other file and no directory.
C10_Frame ==
    [][/\ last'.op \in {"read", "fonts"}
          => files' = files /\ dirs' = dirs /\ fontDirs' = fontDirs
       /\ (last'.op = "write" /\ last'.ok)
          => /\ \A n \in Nodes \ {Resolve(last'.path)} : files'[n] = files[n]
             /\ files'[Resolve(last'.path)].exists
             /\ files'[Resolve(last'.path)].bytes = Utf8Encode(last'.content)
             /\ dirs' = dirs /\ fontDirs' = fontDirs]_vars

\* C10: a write to one file has succeeded while the other file holds other
\* bytes
C10_Witness ==
    /\ last.op = "write" /\ last.ok /\ Resolve(last.path) = "/w/a"
    /\ files["/m/c"].exists
    /\ files["/m/c"].bytes = <<195, 169>>
    /\ files["/w/a"].bytes = <<65>>

====
